---- MODULE Spec2Model ----
(***************************************************************************)
(* The web trading server of examples/web_trading_client.py: the shared    *)
(* TradingState, one coroutine per connected session (websocket_endpoint), *)
(* and the feed coroutine (connect_to_market).  Every await of the source  *)
(* is a step boundary; state.lock is an asyncio.Lock.                      *)
(*                                                                         *)
(* Prices and cash are floats in the source; they are modelled as integers *)
(* (exact arithmetic).                                                     *)
(*                                                                         *)
(* The two programs at the server's other ends are modelled after it, each *)
(* with its own variables and specification: the terminal client of        *)
(* examples/python_trading_client.py (SpecTerminal) and the market test    *)
(* server of examples/websocket_test_server.py (SpecMarket).  A step of    *)
(* one program leaves the variables of the other two alone.                *)
(***************************************************************************)
EXTENDS Integers, Sequences, FiniteSets, TLC

\* ------------------------------------------------------------------ bounds
MaxOrders == 2          \* orders the sessions send in all
MaxKeys   == 4          \* keys pressed in the terminal client in all
MaxPlaced == 2          \* order_placed messages the market test server receives

Clients    == {"c1", "c2"}
Rank       == [c \in Clients |-> IF c = "c1" THEN 1 ELSE 2]
Symbols    == {"AAPL"}
PriceVals  == {5000, 10000}   \* the prices the feed announces
Quantities == {-1, 0, 1, 2}   \* what a client may put in "quantity"
Actions    == {"buy", "sell"}

StartCash == 10000

TcStartCash == 10000    \* the terminal client's self.cash at construction

NoHoldings == [s \in {} |-> 0]

MsClients    == {"m1", "m2"}          \* the market test server's clients
Broadcasters == MsClients \cup {"gen"} \* who calls its broadcast_message

\* No call of broadcast_message made yet.
NoIter == [status |-> "idle", msg |-> "-", start |-> {}, yielded |-> {},
           cur |-> "-", disconnected |-> {}]

\* ---------------------------------------------------------------- messages
\* Every message is a record of the same shape; unused fields are "-" / 0.
Msg(t, m, a, s, q, p) ==
    [type |-> t, message |-> m, action |-> a, symbol |-> s, quantity |-> q, price |-> p]

NoMsg == Msg("none", "-", "-", "-", 0, 0)

ErrorMsg(m) == Msg("error", m, "-", "-", 0, 0)

Confirmation(a, s, q, p) == Msg("order_confirmation", "-", a, s, q, p)

UnknownSymbol     == "Unknown symbol"
InsufficientFunds == "Insufficient funds"
InsufficientShares == "Insufficient shares"

Orders == [action : Actions, symbol : Symbols, quantity : Quantities]

NoOrder == [action |-> "-", symbol |-> "-", quantity |-> 0]

FeedMsgs ==
    {Msg("market_open", "-", "-", "-", 0, 0), Msg("market_close", "-", "-", "-", 0, 0)}
    \cup {Msg("price_update", "-", "-", s, 0, p) : s \in Symbols, p \in PriceVals}

VARIABLES
    prices,             \* state.prices: symbol -> price, a dict (partial function)
    portfolios,         \* state.portfolios: client id -> [cash, holdings]
    market_open,        \* state.market_open
    connected_clients,  \* state.connected_clients, in insertion order
    market_ws,          \* state.market_ws: "None", "open" or "closed"
    lock,               \* state.lock: "None" or the coroutine holding it
    pc,                 \* where each session coroutine stands
    transport,          \* each session's websocket: "new", "open", "closed"
    order,              \* process_order's argument
    price,              \* process_order's local price
    result,             \* the message process_order is sending
    nOrders,            \* orders received so far, all sessions together
    fpc,                \* where the feed coroutine stands
    fmsg,               \* the feed message being handled
    pending,            \* broadcast_to_clients: clients still to be sent to
    disconnected,       \* broadcast_to_clients: its local list
    fault,              \* what last went wrong in connect_to_market, until its
                        \* next regular step: "none", "connect_failed",
                        \* "closed", "not_json" or "payload_error"
    upstream,           \* the order_placed message in market_ws.send, if any
    \* ---- observation (history) variables, read by no action's guard
    before,             \* the session's ledger when its current order arrived
    stored,             \* the store's price for the symbol of the price_update
                        \* being broadcast, as it was when the event arrived
                        \* (0: none)
    fresh,              \* the sessions that have registered and are not yet
                        \* through their first send_state_update
    net,                \* per session: the signed notional and quantities of
                        \* the confirmations issued to it
    shadowPrices,       \* the price table of the sequential execution
    shadowPortfolios,   \* the ledgers of the sequential execution
    \* ---- the terminal client (python_trading_client.py, TradingClient)
    tc_prices,          \* self.prices
    tc_symbols,         \* self.symbols, kept sorted
    tc_selected_symbol, \* self.selected_symbol
    tc_market_open,     \* self.market_open
    tc_cash,            \* self.cash
    tc_portfolio,       \* self.portfolio, a defaultdict(int)
    tc_orders,          \* self.orders
    tc_websocket,       \* self.websocket: "None", "open" or "closed"
    tc_running,         \* self.running
    tc_input_mode,      \* self.input_mode: "menu", "buy" or "sell"
    tc_input_buffer,    \* self.input_buffer, a string of characters
    tc_needs_redraw,    \* self.needs_redraw
    tc_lock,            \* self.lock, a threading.Lock: "free" or the thread
                        \* that acquired it ("loop", "ui")
    hi_pc,              \* where the handle_input coroutine stands
    key,                \* handle_input's local key
    mm_pc,              \* where the connect_to_market coroutine stands
    ui_pc,              \* where the draw_ui thread stands
    tc_sent,            \* the order last put into self.websocket.send, if any
    nKeys,              \* keys pressed so far
    \* ---- the market test server (websocket_test_server.py)
    ms_connected_clients, \* connected_clients, a set
    ms_prices,          \* prices
    ms_transport,       \* each client's websocket: "new", "open", "closed"
    ms_pc,              \* where each client's market_simulator stands
    gen_pc,             \* where the price_generator task stands
    ms_iter,            \* per caller of broadcast_message: the message, the set
                        \* iterator of its for loop (the set as it was when
                        \* the iterator was made, the clients it has yielded,
                        \* the client whose send is suspended), the local list
                        \* disconnected, and how the call ended
    nPlaced             \* order_placed messages received so far

progVars == <<prices, portfolios, market_open, connected_clients, market_ws, lock>>
cliVars  == <<pc, transport, order, price, result, nOrders, upstream>>
feedVars == <<fpc, fmsg, pending, disconnected, fault>>
tcVars   == <<tc_prices, tc_symbols, tc_selected_symbol, tc_market_open, tc_cash,
              tc_portfolio, tc_orders, tc_websocket, tc_running, tc_input_mode,
              tc_input_buffer, tc_needs_redraw, tc_lock, hi_pc, key, mm_pc, ui_pc,
              tc_sent, nKeys>>
msVars   == <<ms_connected_clients, ms_prices, ms_transport, ms_pc, gen_pc, ms_iter,
              nPlaced>>
extVars  == <<tcVars, msVars>>
obsVars  == <<before, stored, fresh, net, shadowPrices, shadowPortfolios>>
gwVars   == <<progVars, cliVars, feedVars, obsVars>>
vars     == <<gwVars, extVars>>

\* ----------------------------------------------------------------- helpers
\* A dict with key k set to v.
Put(d, k, v) == [x \in DOMAIN d \cup {k} |-> IF x = k THEN v ELSE d[x]]

\* A dict with key k deleted.
Del(d, k) == [x \in DOMAIN d \ {k} |-> d[x]]

\* A list without the members of a set.
RECURSIVE Without(_, _)
Without(seq, gone) ==
    IF seq = <<>> THEN <<>>
    ELSE IF Head(seq) \in gone THEN Without(Tail(seq), gone)
         ELSE <<Head(seq)>> \o Without(Tail(seq), gone)

Range(seq) == {seq[i] : i \in DOMAIN seq}

\* A slip: the new ledger starts without cash.
NewPortfolioPoor == [cash |-> 0, holdings |-> NoHoldings]

NewPortfolio == [cash |-> StartCash, holdings |-> NoHoldings]

\* A slip: handle_market_message does not wait for the lock.
LockFreeFeedUnlocked(p) == p = "feed" \/ lock = "None"

\* asyncio.Lock: "async with state.lock" lets coroutine p in only when nobody
\* holds the lock.
LockFree(p) == lock = "None"

\* ------------------------------------------------------------ process_order
\* A slip: the funds test is strict.
ExecBuyStrict(pf, sym, q, p) ==
    LET cost == p * q IN
    IF pf.cash > cost
    THEN LET h0 == IF sym \notin DOMAIN pf.holdings
                   THEN Put(pf.holdings, sym, 0) ELSE pf.holdings
         IN [ledger |-> [cash |-> pf.cash - cost,
                         holdings |-> Put(h0, sym, h0[sym] + q)],
             msg |-> Confirmation("buy", sym, q, p)]
    ELSE [ledger |-> pf, msg |-> ErrorMsg(InsufficientFunds)]

\* A slip: the holdings entry is created before the funds test.
ExecBuyEarlyKey(pf, sym, q, p) ==
    LET cost == p * q
        h0 == IF sym \notin DOMAIN pf.holdings
              THEN Put(pf.holdings, sym, 0) ELSE pf.holdings
    IN IF pf.cash >= cost
       THEN [ledger |-> [cash |-> pf.cash - cost,
                         holdings |-> Put(h0, sym, h0[sym] + q)],
             msg |-> Confirmation("buy", sym, q, p)]
       ELSE [ledger |-> [cash |-> pf.cash, holdings |-> h0],
             msg |-> ErrorMsg(InsufficientFunds)]

\* A slip: the confirmation is built but the ledger is not written.
ExecBuyUnwritten(pf, sym, q, p) ==
    LET cost == p * q IN
    IF pf.cash >= cost
    THEN [ledger |-> pf, msg |-> Confirmation("buy", sym, q, p)]
    ELSE [ledger |-> pf, msg |-> ErrorMsg(InsufficientFunds)]

\* The buy branch: the ledger after it and the message it sends.
ExecBuy(pf, sym, q, p) ==
    LET cost == p * q IN
    IF pf.cash >= cost
    THEN LET h0 == IF sym \notin DOMAIN pf.holdings
                   THEN Put(pf.holdings, sym, 0) ELSE pf.holdings
         IN [ledger |-> [cash |-> pf.cash - cost,
                         holdings |-> Put(h0, sym, h0[sym] + q)],
             msg |-> Confirmation("buy", sym, q, p)]
    ELSE [ledger |-> pf, msg |-> ErrorMsg(InsufficientFunds)]

\* A slip: the shares test is strict.
ExecSellStrict(pf, sym, q, p) ==
    IF sym \in DOMAIN pf.holdings /\ pf.holdings[sym] > q
    THEN LET h1 == Put(pf.holdings, sym, pf.holdings[sym] - q)
             h2 == IF h1[sym] = 0 THEN Del(h1, sym) ELSE h1
         IN [ledger |-> [cash |-> pf.cash + p * q, holdings |-> h2],
             msg |-> Confirmation("sell", sym, q, p)]
    ELSE [ledger |-> pf, msg |-> ErrorMsg(InsufficientShares)]

\* A slip: the sale credits the price, not price * quantity.
ExecSellFlat(pf, sym, q, p) ==
    IF sym \in DOMAIN pf.holdings /\ pf.holdings[sym] >= q
    THEN LET h1 == Put(pf.holdings, sym, pf.holdings[sym] - q)
             h2 == IF h1[sym] = 0 THEN Del(h1, sym) ELSE h1
         IN [ledger |-> [cash |-> pf.cash + p, holdings |-> h2],
             msg |-> Confirmation("sell", sym, q, p)]
    ELSE [ledger |-> pf, msg |-> ErrorMsg(InsufficientShares)]

\* The sell branch.
ExecSell(pf, sym, q, p) ==
    IF sym \in DOMAIN pf.holdings /\ pf.holdings[sym] >= q
    THEN LET h1 == Put(pf.holdings, sym, pf.holdings[sym] - q)
             h2 == IF h1[sym] = 0 THEN Del(h1, sym) ELSE h1
         IN [ledger |-> [cash |-> pf.cash + p * q, holdings |-> h2],
             msg |-> Confirmation("sell", sym, q, p)]
    ELSE [ledger |-> pf, msg |-> ErrorMsg(InsufficientShares)]

\* The if/elif on action; any other action changes and sends nothing.
Execute(pf, a, sym, q, p) ==
    CASE a = "buy"  -> ExecBuy(pf, sym, q, p)
      [] a = "sell" -> ExecSell(pf, sym, q, p)
      [] OTHER      -> [ledger |-> pf, msg |-> NoMsg]

\* "if symbol not in state.prices"
SymbolKnown(sym) == sym \in DOMAIN prices

\* A slip: the unknown-symbol branch lacks its "return" and runs on into the
\* upstream relay.
AfterResultNoReturn(m) ==
    CASE m.type = "order_confirmation" -> "po_relay"
      [] m.message = UnknownSymbol     -> "po_relay"
      [] OTHER                         -> "ssu_lock"

\* Where process_order goes once its result message has been sent: a
\* confirmation is followed by send_order_to_market (still under the lock),
\* the unknown-symbol error by "return", any other error by the end of the
\* locked block and send_state_update.
AfterResult(m) ==
    CASE m.type = "order_confirmation" -> "po_relay"
      [] m.message = UnknownSymbol     -> "recv"
      [] OTHER                         -> "ssu_lock"

\* send_order_to_market's message.
OrderPlaced(m) == Msg("order_placed", "-", m.action, m.symbol, m.quantity, m.price)

\* process_order run alone on a ledger and a price table (no interleaving).
SeqOrder(pf, pr, o) ==
    IF o.symbol \notin DOMAIN pr THEN pf
    ELSE Execute(pf, o.action, o.symbol, o.quantity, pr[o.symbol]).ledger

\* The signed notional and quantity a confirmation stands for.
Signed(m) == IF m.action = "buy" THEN 1 ELSE -1

NetAfter(n, m) ==
    IF m.type # "order_confirmation" THEN n
    ELSE [cash |-> n.cash - Signed(m) * m.price * m.quantity,
          qty  |-> [s \in Symbols |->
                      IF s = m.symbol THEN n.qty[s] + Signed(m) * m.quantity
                      ELSE n.qty[s]]]

\* -------------------------------------------------------------------- Init
Init ==
    /\ prices = [s \in {} |-> 0]
    /\ portfolios = [c \in {} |-> NewPortfolio]
    /\ market_open = FALSE
    /\ connected_clients = <<>>
    /\ market_ws = "None"
    /\ lock = "None"
    /\ pc = [c \in Clients |-> "init"]
    /\ transport = [c \in Clients |-> "new"]
    /\ order = [c \in Clients |-> NoOrder]
    /\ price = [c \in Clients |-> 0]
    /\ result = [c \in Clients |-> NoMsg]
    /\ nOrders = 0
    /\ fpc = "connect"
    /\ fmsg = NoMsg
    /\ pending = <<>>
    /\ disconnected = <<>>
    /\ fault = "none"
    /\ upstream = NoMsg
    /\ before = [c \in Clients |-> NewPortfolio]
    /\ stored = 0
    /\ fresh = {}
    /\ net = [c \in Clients |-> [cash |-> 0, qty |-> [s \in Symbols |-> 0]]]
    /\ shadowPrices = [s \in {} |-> 0]
    /\ shadowPortfolios = [c \in {} |-> NewPortfolio]
    /\ tc_prices = [s \in {} |-> 0]
    /\ tc_symbols = <<>>
    /\ tc_selected_symbol = 0
    /\ tc_market_open = FALSE
    /\ tc_cash = TcStartCash
    /\ tc_portfolio = [s \in Symbols |-> 0]
    /\ tc_orders = <<>>
    /\ tc_websocket = "None"
    /\ tc_running = TRUE
    /\ tc_input_mode = "menu"
    /\ tc_input_buffer = <<>>
    /\ tc_needs_redraw = TRUE
    /\ tc_lock = "free"
    /\ hi_pc = "inkey"
    /\ key = "-"
    /\ mm_pc = "connect"
    /\ ui_pc = "sleep"
    /\ tc_sent = NoMsg
    /\ nKeys = 0
    /\ ms_connected_clients = {}
    /\ ms_prices = [s \in {} |-> 0]
    /\ ms_transport = [c \in MsClients |-> "new"]
    /\ ms_pc = [c \in MsClients |-> "new"]
    /\ gen_pc = "main"
    /\ ms_iter = [b \in Broadcasters |-> NoIter]
    /\ nPlaced = 0

\* ------------------------------------------------------ websocket_endpoint
\* A slip: registering assigns a fresh ledger to every session.
RegisterClobber(c) ==
    /\ pc[c] = "init"
    /\ \A d \in Clients : Rank[d] < Rank[c] => pc[d] # "init"
    /\ LockFree(c)
    /\ transport' = [transport EXCEPT ![c] = "open"]
    /\ connected_clients' = Append(connected_clients, c)
    /\ portfolios' = [d \in DOMAIN portfolios \cup {c} |-> NewPortfolio]
    /\ shadowPortfolios' = IF c \notin DOMAIN shadowPortfolios
                           THEN Put(shadowPortfolios, c, NewPortfolio)
                           ELSE shadowPortfolios
    /\ pc' = [pc EXCEPT ![c] = "ssu_lock"]
    /\ fresh' = fresh \cup {c}
    /\ UNCHANGED extVars
    /\ UNCHANGED <<prices, market_open, market_ws, lock, order, price,
                   result, nOrders, upstream, feedVars, before, stored, net,
                   shadowPrices>>

\* await websocket.accept(), client_id = str(uuid.uuid4()) and the first
\* locked block: the session enters connected_clients and gets its portfolio.
\* The block holds no await; the accept before it touches nothing shared.
\* The ids are fresh uuids, so the sessions are named in the order in which
\* they register (Rank).
Register(c) ==
    /\ pc[c] = "init"
    /\ \A d \in Clients : Rank[d] < Rank[c] => pc[d] # "init"
    /\ LockFree(c)
    /\ transport' = [transport EXCEPT ![c] = "open"]
    /\ connected_clients' = Append(connected_clients, c)
    /\ portfolios' = IF c \notin DOMAIN portfolios
                     THEN Put(portfolios, c, NewPortfolio) ELSE portfolios
    /\ shadowPortfolios' = IF c \notin DOMAIN shadowPortfolios
                           THEN Put(shadowPortfolios, c, NewPortfolio)
                           ELSE shadowPortfolios
    /\ pc' = [pc EXCEPT ![c] = "ssu_lock"]
    /\ fresh' = fresh \cup {c}
    /\ UNCHANGED extVars
    /\ UNCHANGED <<prices, market_open, market_ws, lock, order, price,
                   result, nOrders, upstream, feedVars, before, stored, net, shadowPrices>>

\* The peer may close or lose the connection at any time; the server sees it
\* at its next send or receive on that transport, which then raises.  A
\* transport that is still open either carries the operation or is found closed.
Fails(c)   == transport' = [transport EXCEPT ![c] = "closed"]

Carries(c) == transport[c] = "open" /\ UNCHANGED transport

\* A send on a closed transport raises; which exception depends on the
\* server library, and the two handlers of websocket_endpoint differ.
Raised == {"exc_wsd", "exc_other"}

\* send_state_update: async with state.lock
SSU_Lock(c) ==
    /\ pc[c] = "ssu_lock"
    /\ LockFree(c)
    /\ lock' = c
    /\ pc' = [pc EXCEPT ![c] = "ssu_send"]
    /\ UNCHANGED <<prices, portfolios, market_open, connected_clients, market_ws,
                   transport, order, price, result, nOrders, upstream, feedVars, obsVars, extVars>>

\* The fields of the full state snapshot.
StateUpdateFields == {"portfolio", "cash", "prices", "market_open"}

\* send_state_update: the message built for session c and sent by SSU_Send(c).
SnapshotMsg(c) ==
    [type        |-> "state_update",
     portfolio   |-> portfolios[c].holdings,
     cash        |-> portfolios[c].cash,
     prices      |-> prices,
     market_open |-> market_open]

\* handle_market_message: the message handed to broadcast_to_clients for the
\* upstream event m, sent to each session by Broadcast.
BroadcastMsg(m) ==
    CASE m.type = "market_open"  -> [type |-> "state_update", market_open |-> TRUE]
      [] m.type = "market_close" -> [type |-> "state_update", market_open |-> FALSE]
      [] OTHER                   -> [type   |-> "price_update",
                                     symbol |-> m.symbol,
                                     price  |-> m.price]

\* A slip: the snapshot goes out on the transport of the first registered
\* session instead of the caller's own websocket.
SSU_SendToFirst(c) ==
    LET w == IF connected_clients = <<>> THEN c ELSE Head(connected_clients) IN
    /\ pc[c] = "ssu_send"
    /\ lock' = "None"
    /\ \/ /\ Carries(w)
          /\ pc' = [pc EXCEPT ![c] = "recv"]
       \/ /\ Fails(w)
          /\ \E e \in Raised : pc' = [pc EXCEPT ![c] = e]
    /\ UNCHANGED <<prices, portfolios, market_open, connected_clients, market_ws,
                   order, price, result, nOrders, upstream, feedVars, before, stored, net,
                   shadowPrices, shadowPortfolios>>
    /\ fresh' = fresh \ {c}
    /\ UNCHANGED extVars

\* send_state_update: await websocket.send_json(...), then the lock is released
\* (also when the send raises).
SSU_Send(c) ==
    /\ pc[c] = "ssu_send"
    /\ lock' = "None"
    /\ \/ /\ Carries(c)
          /\ pc' = [pc EXCEPT ![c] = "recv"]
       \/ /\ Fails(c)
          /\ \E e \in Raised : pc' = [pc EXCEPT ![c] = e]
    /\ UNCHANGED <<prices, portfolios, market_open, connected_clients, market_ws,
                   order, price, result, nOrders, upstream, feedVars, before, stored, net,
                   shadowPrices, shadowPortfolios>>
    /\ fresh' = fresh \ {c}
    /\ UNCHANGED extVars

\* data = await websocket.receive_json(); handle_client_message: an order.
Receive(c, o) ==
    /\ pc[c] = "recv"
    /\ Carries(c)
    /\ nOrders < MaxOrders
    /\ nOrders' = nOrders + 1
    /\ order' = [order EXCEPT ![c] = o]
    /\ pc' = [pc EXCEPT ![c] = "po_lock"]
    /\ before' = [before EXCEPT ![c] = portfolios[c]]
    /\ UNCHANGED <<progVars, price, result, upstream, feedVars, stored, fresh, extVars, net,
                   shadowPrices, shadowPortfolios>>

\* receive_json on a closed transport raises WebSocketDisconnect.
ReceiveDisconnect(c) ==
    /\ pc[c] = "recv"
    /\ Fails(c)
    /\ pc' = [pc EXCEPT ![c] = "exc_wsd"]
    /\ UNCHANGED <<progVars, order, price, result, nOrders, upstream,
                   feedVars, obsVars, extVars>>

\* process_order is left (normally or by a raise): its locals are gone.
EndOrder(c) ==
    /\ order' = [order EXCEPT ![c] = NoOrder]
    /\ price' = [price EXCEPT ![c] = 0]
    /\ result' = [result EXCEPT ![c] = NoMsg]
    /\ before' = [before EXCEPT ![c] = NewPortfolio]

\* process_order: async with state.lock, the symbol check and the read of the
\* price (no await in between).
PO_Lock(c) ==
    /\ pc[c] = "po_lock"
    /\ LockFree(c)
    /\ lock' = c
    /\ IF ~SymbolKnown(order[c].symbol)
       THEN /\ result' = [result EXCEPT ![c] = ErrorMsg(UnknownSymbol)]
            /\ pc' = [pc EXCEPT ![c] = "po_send"]
            /\ shadowPortfolios' = [shadowPortfolios EXCEPT
                                      ![c] = SeqOrder(@, shadowPrices, order[c])]
            /\ UNCHANGED price
       ELSE /\ price' = [price EXCEPT ![c] = prices[order[c].symbol]]
            /\ pc' = [pc EXCEPT ![c] = "po_apply"]
            /\ UNCHANGED <<result, shadowPortfolios>>
    /\ UNCHANGED <<prices, portfolios, market_open, connected_clients, market_ws,
                   transport, order, nOrders, upstream, feedVars, before, stored, fresh, extVars,
                   net, shadowPrices>>

\* process_order: the buy or sell branch up to its send_json.
PO_Apply(c) ==
    /\ pc[c] = "po_apply"
    /\ LET o == order[c]
           r == Execute(portfolios[c], o.action, o.symbol, o.quantity, price[c])
       IN /\ portfolios' = [portfolios EXCEPT ![c] = r.ledger]
          /\ shadowPortfolios' = [shadowPortfolios EXCEPT
                                    ![c] = SeqOrder(@, shadowPrices, o)]
          /\ IF r.msg = NoMsg
             THEN /\ pc' = [pc EXCEPT ![c] = "ssu_lock"]
                  /\ lock' = "None"
                  /\ EndOrder(c)
             ELSE /\ pc' = [pc EXCEPT ![c] = "po_send"]
                  /\ result' = [result EXCEPT ![c] = r.msg]
                  /\ UNCHANGED <<lock, order, price, before>>
    /\ UNCHANGED <<prices, market_open, connected_clients, market_ws, transport,
                   nOrders, upstream, feedVars, stored, fresh, extVars, net, shadowPrices>>

\* A slip: a raise of the send leaves process_order with the lock still held.
PO_SendHolds(c) ==
    /\ pc[c] = "po_send"
    /\ net' = [net EXCEPT ![c] = NetAfter(@, result[c])]
    /\ \/ /\ Carries(c)
          /\ pc' = [pc EXCEPT ![c] = AfterResult(result[c])]
          /\ IF AfterResult(result[c]) = "po_relay"
             THEN UNCHANGED <<lock, order, price, result, before>>
             ELSE lock' = "None" /\ EndOrder(c)
       \/ /\ Fails(c)
          /\ \E e \in Raised : pc' = [pc EXCEPT ![c] = e]
          /\ UNCHANGED lock
          /\ EndOrder(c)
    /\ UNCHANGED <<prices, portfolios, market_open, connected_clients, market_ws,
                   nOrders, upstream, feedVars, stored, fresh, extVars, shadowPrices, shadowPortfolios>>

\* process_order: await websocket.send_json(result).  A raise leaves the
\* locked block (the lock is released) and reaches websocket_endpoint.
PO_Send(c) ==
    /\ pc[c] = "po_send"
    /\ net' = [net EXCEPT ![c] = NetAfter(@, result[c])]
    /\ \/ /\ Carries(c)
          /\ pc' = [pc EXCEPT ![c] = AfterResult(result[c])]
          /\ IF AfterResult(result[c]) = "po_relay"
             THEN UNCHANGED <<lock, order, price, result, before>>
             ELSE lock' = "None" /\ EndOrder(c)
       \/ /\ Fails(c)
          /\ \E e \in Raised : pc' = [pc EXCEPT ![c] = e]
          /\ lock' = "None"
          /\ EndOrder(c)
    /\ UNCHANGED <<prices, portfolios, market_open, connected_clients, market_ws,
                   nOrders, upstream, feedVars, stored, fresh, extVars, shadowPrices, shadowPortfolios>>

\* send_order_to_market: on an open upstream connection the order_placed
\* message goes into await state.market_ws.send(...); otherwise nothing is
\* sent and process_order's locked block ends.
PO_Relay(c) ==
    /\ pc[c] = "po_relay"
    /\ IF market_ws = "open"
       THEN /\ upstream' = OrderPlaced(result[c])
            /\ pc' = [pc EXCEPT ![c] = "po_relay_wait"]
            /\ UNCHANGED <<lock, order, price, result, before>>
       ELSE /\ pc' = [pc EXCEPT ![c] = "ssu_lock"]
            /\ lock' = "None"
            /\ EndOrder(c)
            /\ UNCHANGED upstream
    /\ UNCHANGED <<prices, portfolios, market_open, connected_clients, market_ws,
                   transport, nOrders, feedVars, stored, fresh, extVars, net, shadowPrices,
                   shadowPortfolios>>

\* A slip: send_order_to_market lacks its try, so a failed upstream send
\* raises out of process_order.
PO_RelayDoneRaises(c) ==
    /\ pc[c] = "po_relay_wait"
    /\ upstream' = NoMsg
    /\ pc' = [pc EXCEPT ![c] = IF market_ws = "open" THEN "ssu_lock" ELSE "exc_other"]
    /\ lock' = "None"
    /\ EndOrder(c)
    /\ UNCHANGED <<prices, portfolios, market_open, connected_clients, market_ws,
                   transport, nOrders, feedVars, stored, fresh, extVars, net, shadowPrices,
                   shadowPortfolios>>

\* The upstream send returns, or raises and is caught; the locked block ends.
PO_RelayDone(c) ==
    /\ pc[c] = "po_relay_wait"
    /\ upstream' = NoMsg
    /\ pc' = [pc EXCEPT ![c] = "ssu_lock"]
    /\ lock' = "None"
    /\ EndOrder(c)
    /\ UNCHANGED <<prices, portfolios, market_open, connected_clients, market_ws,
                   transport, nOrders, feedVars, stored, fresh, extVars, net, shadowPrices,
                   shadowPortfolios>>

\* except WebSocketDisconnect: del state.connected_clients[client_id], under
\* the lock and unchecked: a missing key raises KeyError out of the handler.
ExcDisconnect(c) ==
    /\ pc[c] = "exc_wsd"
    /\ LockFree(c)
    /\ IF c \in Range(connected_clients)
       THEN /\ connected_clients' = Without(connected_clients, {c})
            /\ pc' = [pc EXCEPT ![c] = "done"]
       ELSE /\ pc' = [pc EXCEPT ![c] = "crashed"]
            /\ UNCHANGED connected_clients
    /\ UNCHANGED <<prices, portfolios, market_open, market_ws, lock, transport,
                   order, price, result, nOrders, upstream, feedVars, obsVars, extVars>>

\* A slip: the handler deletes without taking the lock.
ExcOtherUnlocked(c) ==
    /\ pc[c] = "exc_other"
    /\ connected_clients' = Without(connected_clients, {c})
    /\ pc' = [pc EXCEPT ![c] = "done"]
    /\ UNCHANGED <<prices, portfolios, market_open, market_ws, lock, transport,
                   order, price, result, nOrders, upstream, feedVars, obsVars, extVars>>

\* except Exception: the checked delete.
ExcOther(c) ==
    /\ pc[c] = "exc_other"
    /\ LockFree(c)
    /\ connected_clients' = Without(connected_clients, {c})
    /\ pc' = [pc EXCEPT ![c] = "done"]
    /\ UNCHANGED <<prices, portfolios, market_open, market_ws, lock, transport,
                   order, price, result, nOrders, upstream, feedVars, obsVars, extVars>>

\* -------------------------------------------------------- connect_to_market
\* async with websockets.connect(uri) succeeds: state.market_ws = websocket
FeedConnect ==
    /\ fpc = "connect"
    /\ market_ws' = "open"
    /\ fpc' = "recv"
    /\ fault' = "none"
    /\ UNCHANGED <<prices, portfolios, market_open, connected_clients, lock,
                   cliVars, fmsg, pending, disconnected, obsVars, extVars>>

\* A slip: the except clause leaves the loop.
FeedConnectFailStops ==
    /\ fpc = "connect"
    /\ market_ws' = "None"
    /\ fpc' = "stopped"
    /\ fault' = "connect_failed"
    /\ UNCHANGED <<prices, portfolios, market_open, connected_clients, lock,
                   cliVars, fmsg, pending, disconnected, obsVars, extVars>>

\* The connect raises: except Exception sets market_ws = None and sleeps.
FeedConnectFail ==
    /\ fpc = "connect"
    /\ market_ws' = "None"
    /\ fpc' = "sleep"
    /\ fault' = "connect_failed"
    /\ UNCHANGED <<prices, portfolios, market_open, connected_clients, lock,
                   cliVars, fmsg, pending, disconnected, obsVars, extVars>>

\* await asyncio.sleep(5) is over.
FeedSleep ==
    /\ fpc = "sleep"
    /\ fpc' = "connect"
    /\ fault' = "none"
    /\ UNCHANGED <<progVars, cliVars, fmsg, pending, disconnected, obsVars, extVars>>

\* The upstream connection closes: ConnectionClosed is caught inside the
\* "async with", which then ends; market_ws keeps the closed connection and
\* the while loop starts over.
FeedClosed ==
    /\ fpc = "recv"
    /\ market_ws' = "closed"
    /\ fpc' = "connect"
    /\ fault' = "closed"
    /\ UNCHANGED <<prices, portfolios, market_open, connected_clients, lock,
                   cliVars, fmsg, pending, disconnected, obsVars, extVars>>

\* ---------------------------------------------------- handle_market_message
\* A slip: the price is passed on to the broadcast but not written.
ApplyPricesUnwritten(pr, m) == pr

\* The price table and the flag after a feed event.
ApplyPrices(pr, m) ==
    IF m.type = "price_update" THEN Put(pr, m.symbol, m.price) ELSE pr

\* A slip: any feed event but market_close opens the market.
ApplyOpenAny(open, m) == m.type # "market_close"

ApplyOpen(open, m) ==
    CASE m.type = "market_open"  -> TRUE
      [] m.type = "market_close" -> FALSE
      [] OTHER                   -> open

\* A slip: the sessions whose send failed are not removed.
BroadcastEndKeep(gone) ==
    /\ connected_clients' = connected_clients
    /\ lock' = "None"
    /\ fpc' = "recv"
    /\ fmsg' = NoMsg
    /\ disconnected' = <<>>
    /\ stored' = 0

\* broadcast_to_clients is over: the failed sessions are removed; back in
\* handle_market_message the locked block ends.
BroadcastEnd(gone) ==
    /\ connected_clients' = Without(connected_clients, gone)
    /\ lock' = "None"
    /\ fpc' = "recv"
    /\ fmsg' = NoMsg
    /\ disconnected' = <<>>
    /\ stored' = 0

\* async for message in websocket: message m arrives and, once the lock is
\* free, handle_market_message applies it to the store under the lock and
\* broadcast_to_clients starts its loop over connected_clients (with nobody
\* connected it is over at once).  No await lies between the three.
HM_Apply(m) ==
    /\ fpc = "recv"
    /\ LockFree("feed")
    /\ prices' = ApplyPrices(prices, m)
    /\ shadowPrices' = ApplyPrices(shadowPrices, m)
    /\ market_open' = ApplyOpen(market_open, m)
    /\ fault' = "none"
    /\ IF connected_clients = <<>>
       THEN UNCHANGED <<connected_clients, lock, fpc, fmsg, pending, disconnected,
                        stored>>
       ELSE /\ pending' = connected_clients
            /\ stored' = IF m.type = "price_update" /\ m.symbol \in DOMAIN prices
                         THEN prices[m.symbol] ELSE 0
            /\ fmsg' = m
            /\ disconnected' = <<>>
            /\ fpc' = "bcast"
            /\ lock' = "feed"
            /\ UNCHANGED connected_clients
    /\ UNCHANGED <<portfolios, market_ws, cliVars, before, fresh, extVars, net,
                   shadowPortfolios>>

\* broadcast_to_clients: one await websocket.send_json(message); a raise is
\* caught and the session noted.  After the last one the loop ends.
Broadcast ==
    /\ fpc = "bcast"
    /\ pending # <<>>
    /\ LET c == Head(pending) IN
       \E d \in {disconnected, Append(disconnected, c)} :
          /\ IF d = disconnected THEN Carries(c) ELSE Fails(c)
          /\ pending' = Tail(pending)
          /\ IF Tail(pending) = <<>>
             THEN BroadcastEnd(Range(d))
             ELSE /\ disconnected' = d
                  /\ UNCHANGED <<connected_clients, lock, fpc, fmsg, stored>>
    /\ UNCHANGED <<prices, portfolios, market_open, market_ws, pc, order, price,
                   result, nOrders, upstream, fault, before, fresh, extVars, net,
                   shadowPrices, shadowPortfolios>>

\* A payload that handle_market_message cannot use.  "not_json": json.loads
\* raises JSONDecodeError, which is caught and the payload dropped.  The others
\* are JSON objects lacking a key the handler subscripts (data["type"],
\* data["symbol"], data["price"]): under the lock, before any write, KeyError
\* is raised; the handler catches only JSONDecodeError, so it leaves the
\* locked block, handle_market_message and the "async with" of the connection
\* (which closes it) and reaches connect_to_market's except Exception.
Malformed == {"not_json", "no_type", "no_symbol", "no_price"}

HM_Malformed(k) ==
    /\ fpc = "recv"
    /\ IF k = "not_json"
       THEN /\ fault' = "not_json"
            /\ UNCHANGED <<market_ws, fpc>>
       ELSE /\ LockFree("feed")
            /\ market_ws' = "None"
            /\ fpc' = "sleep"
            /\ fault' = "payload_error"
    /\ UNCHANGED <<prices, portfolios, market_open, connected_clients, lock,
                   cliVars, fmsg, pending, disconnected, obsVars, extVars>>

\* -------------------------------------------------------------------- Next
Next ==
    \/ \E c \in Clients : Register(c)
    \/ \E c \in Clients : SSU_Lock(c)
    \/ \E c \in Clients : SSU_Send(c)
    \/ \E c \in Clients : \E o \in Orders : Receive(c, o)
    \/ \E c \in Clients : ReceiveDisconnect(c)
    \/ \E c \in Clients : PO_Lock(c)
    \/ \E c \in Clients : PO_Apply(c)
    \/ \E c \in Clients : PO_Send(c)
    \/ \E c \in Clients : PO_Relay(c)
    \/ \E c \in Clients : PO_RelayDone(c)
    \/ \E c \in Clients : ExcDisconnect(c)
    \/ \E c \in Clients : ExcOther(c)
    \/ FeedConnect
    \/ \E m \in FeedMsgs : HM_Apply(m)
    \/ Broadcast

\* The server with an upstream connection that, once made, stays up.
Spec == Init /\ [][Next]_vars

\* The server with an upstream connection that may fail and be made again.
NextFeed ==
    \/ Next
    \/ FeedConnectFail
    \/ FeedSleep
    \/ FeedClosed
    \/ \E k \in Malformed : HM_Malformed(k)

SpecFeed == Init /\ [][NextFeed]_vars

\* What the event loop guarantees a session coroutine: a coroutine that is
\* ready runs, and asyncio.Lock wakes its waiters in turn, so a coroutine
\* waiting for the lock gets it if the lock keeps being released.  What the
\* peers do (send an order, close, announce a price) is guaranteed by nobody.
FairSession(c) ==
    /\ SF_vars(SSU_Lock(c))
    /\ SF_vars(PO_Lock(c))
    /\ SF_vars(ExcDisconnect(c))
    /\ SF_vars(ExcOther(c))
    /\ WF_vars(PO_Apply(c))
    /\ WF_vars(PO_Relay(c))
    /\ WF_vars(PO_RelayDone(c))

\* A send to session c returns or raises.
FairSends(c) ==
    /\ WF_vars(SSU_Send(c))
    /\ WF_vars(PO_Send(c))
    /\ WF_vars(Broadcast /\ Head(pending) = c)

\* The session whose peer stops reading: a send to it may never complete.
Stalled == "c1"

\* The server with fair scheduling, and sends that complete except those to
\* the stalled session.
SpecStall ==
    /\ Init
    /\ [][Next]_vars
    /\ \A c \in Clients : FairSession(c)
    /\ \A c \in Clients \ {Stalled} : FairSends(c)

\* The server with one session and an upstream connection that may fail and
\* be made again; the delay of connect_to_market ends and its connection
\* attempt succeeds or raises.
OneSession == {"c1"}

NextGateway ==
    \/ \E c \in OneSession : Register(c)
    \/ \E c \in OneSession : SSU_Lock(c)
    \/ \E c \in OneSession : SSU_Send(c)
    \/ \E c \in OneSession : \E o \in Orders : Receive(c, o)
    \/ \E c \in OneSession : ReceiveDisconnect(c)
    \/ \E c \in OneSession : PO_Lock(c)
    \/ \E c \in OneSession : PO_Apply(c)
    \/ \E c \in OneSession : PO_Send(c)
    \/ \E c \in OneSession : PO_Relay(c)
    \/ \E c \in OneSession : PO_RelayDone(c)
    \/ \E c \in OneSession : ExcDisconnect(c)
    \/ \E c \in OneSession : ExcOther(c)
    \/ FeedConnect
    \/ \E m \in FeedMsgs : HM_Apply(m)
    \/ Broadcast
    \/ FeedConnectFail
    \/ FeedSleep
    \/ FeedClosed
    \/ \E k \in Malformed : HM_Malformed(k)

SpecGateway ==
    /\ Init
    /\ [][NextGateway]_vars
    /\ WF_vars(FeedSleep)
    /\ WF_vars(FeedConnect \/ FeedConnectFail)

\* ============================================================================
\* The terminal client of examples/python_trading_client.py: the event-loop
\* thread runs the coroutines connect_to_market and handle_input, one at a
\* time between their awaits, and a second thread runs draw_ui.  self.lock is
\* a threading.Lock: acquire() blocks the calling thread until the lock is
\* free, whoever holds it.
\* ============================================================================
Digits == {"0", "1"}

Keys == {"k", "j", "b", "s", "q", "KEY_ESCAPE", "KEY_ENTER", "KEY_BACKSPACE"}
        \cup Digits

\* What the market server sends to the terminal client.
TcMsgs ==
    {Msg(t, "-", "-", "-", 0, 0) : t \in {"market_open", "market_close", "order_placed"}}
    \cup {Msg("price_update", "-", "-", s, 0, p) : s \in Symbols, p \in PriceVals}

tcOther == <<gwVars, msVars>>

\* int(self.input_buffer): the buffer holds digits only (key.isdigit()), so
\* int raises ValueError exactly on the empty string.
DigitVal(ch) == IF ch = "1" THEN 1 ELSE 0

RECURSIVE ToInt(_)
ToInt(buf) ==
    IF buf = <<>> THEN 0
    ELSE 10 * ToInt(SubSeq(buf, 1, Len(buf) - 1)) + DigitVal(buf[Len(buf)])

IsInt(buf) == buf # <<>>

\* self.symbols.append(symbol); self.symbols.sort()
SymbolOrder == [s \in Symbols |-> 1]

RECURSIVE InsertSorted(_, _)
InsertSorted(seq, s) ==
    IF seq = <<>> THEN <<s>>
    ELSE IF SymbolOrder[s] < SymbolOrder[Head(seq)] THEN <<s>> \o seq
    ELSE <<Head(seq)>> \o InsertSorted(Tail(seq), s)

\* self.prices.get(symbol, 0)
PriceOf(s) == IF s \in DOMAIN tc_prices THEN tc_prices[s] ELSE 0

\* send_order's locked block: the order applied to the local ledger; "sent"
\* tells whether the function goes on to self.websocket.send.
LocalOrder(cash, pf, order_type, symbol, quantity, p) ==
    IF order_type = "buy"
    THEN IF cash >= p * quantity
         THEN [cash |-> cash - p * quantity,
               portfolio |-> [pf EXCEPT ![symbol] = @ + quantity],
               note |-> "Bought", sent |-> TRUE]
         ELSE [cash |-> cash, portfolio |-> pf,
               note |-> "Insufficient funds", sent |-> FALSE]
    ELSE IF pf[symbol] >= quantity
         THEN [cash |-> cash + p * quantity,
               portfolio |-> [pf EXCEPT ![symbol] = @ - quantity],
               note |-> "Sold", sent |-> TRUE]
         ELSE [cash |-> cash, portfolio |-> pf,
               note |-> "Insufficient shares", sent |-> FALSE]

\* The coroutines of the event loop run one at a time: one may take a step
\* only while the other is suspended in an await.
InputAwaiting  == hi_pc \in {"inkey", "stopped"}

\* while self.running: where handle_input goes after a key.
LoopTop(running) == IF running THEN "inkey" ELSE "stopped"

\* connect_to_market: websockets.connect succeeds.
TC_Connect ==
    /\ mm_pc = "connect"
    /\ InputAwaiting
    /\ tc_websocket' = "open"
    /\ mm_pc' = "recv"
    /\ UNCHANGED <<tc_prices, tc_symbols, tc_selected_symbol, tc_market_open, tc_cash,
                   tc_portfolio, tc_orders, tc_running, tc_input_mode, tc_input_buffer,
                   tc_needs_redraw, tc_lock, hi_pc, key, ui_pc, tc_sent, nKeys, tcOther>>

\* connect_to_market: websockets.connect raises; except Exception.
TC_ConnectFail ==
    /\ mm_pc = "connect"
    /\ InputAwaiting
    /\ tc_running' = FALSE
    /\ mm_pc' = "done"
    /\ UNCHANGED <<tc_prices, tc_symbols, tc_selected_symbol, tc_market_open, tc_cash,
                   tc_portfolio, tc_orders, tc_websocket, tc_input_mode,
                   tc_input_buffer, tc_needs_redraw, tc_lock, hi_pc, key, ui_pc,
                   tc_sent, nKeys, tcOther>>

\* connect_to_market: the connection ends.  A clean close ends the async for
\* and leaves self.running alone; an abnormal one raises into except Exception.
TC_Closed ==
    /\ mm_pc = "recv"
    /\ InputAwaiting
    /\ tc_websocket' = "closed"
    /\ \E r \in {tc_running, FALSE} : tc_running' = r
    /\ mm_pc' = "done"
    /\ UNCHANGED <<tc_prices, tc_symbols, tc_selected_symbol, tc_market_open, tc_cash,
                   tc_portfolio, tc_orders, tc_input_mode, tc_input_buffer,
                   tc_needs_redraw, tc_lock, hi_pc, key, ui_pc, tc_sent, nKeys,
                   tcOther>>

\* handle_market_message: with self.lock, which has no await inside.
TC_Market(m) ==
    /\ mm_pc = "recv"
    /\ tc_websocket = "open"
    /\ InputAwaiting
    /\ tc_lock = "free"
    /\ tc_market_open' = ApplyOpen(tc_market_open, m)
    /\ IF m.type = "price_update"
       THEN /\ tc_prices' = IF m.symbol \notin DOMAIN tc_prices
                               \/ tc_prices[m.symbol] # m.price
                            THEN Put(tc_prices, m.symbol, m.price)
                            ELSE tc_prices
            /\ tc_symbols' = IF m.symbol \notin Range(tc_symbols)
                             THEN InsertSorted(tc_symbols, m.symbol)
                             ELSE tc_symbols
            /\ tc_needs_redraw' = IF tc_prices' # tc_prices \/ tc_symbols' # tc_symbols
                                  THEN TRUE ELSE tc_needs_redraw
       ELSE UNCHANGED <<tc_prices, tc_symbols, tc_needs_redraw>>
    /\ UNCHANGED <<tc_selected_symbol, tc_cash, tc_portfolio, tc_orders, tc_websocket,
                   tc_running, tc_input_mode, tc_input_buffer, tc_lock, hi_pc, key,
                   mm_pc, ui_pc, tc_sent, nKeys, tcOther>>

\* draw_ui: while self.running: with self.lock.
UI_Lock ==
    /\ ui_pc = "sleep"
    /\ IF tc_running
       THEN /\ tc_lock = "free"
            /\ tc_lock' = "ui"
            /\ ui_pc' = "draw"
       ELSE /\ ui_pc' = "done"
            /\ UNCHANGED tc_lock
    /\ UNCHANGED <<tc_prices, tc_symbols, tc_selected_symbol, tc_market_open, tc_cash,
                   tc_portfolio, tc_orders, tc_websocket, tc_running, tc_input_mode,
                   tc_input_buffer, tc_needs_redraw, hi_pc, key, mm_pc, tc_sent, nKeys,
                   tcOther>>

\* draw_ui: the locked block, then the lock is released.
UI_Draw ==
    /\ ui_pc = "draw"
    /\ tc_needs_redraw' = IF tc_needs_redraw \/ tc_input_mode # "menu"
                          THEN FALSE ELSE tc_needs_redraw
    /\ tc_lock' = "free"
    /\ ui_pc' = "sleep"
    /\ UNCHANGED <<tc_prices, tc_symbols, tc_selected_symbol, tc_market_open, tc_cash,
                   tc_portfolio, tc_orders, tc_websocket, tc_running, tc_input_mode,
                   tc_input_buffer, hi_pc, key, mm_pc, tc_sent, nKeys, tcOther>>

\* handle_input: inkey returns a key.
KeyPressed(k) ==
    /\ hi_pc = "inkey"
    /\ nKeys < MaxKeys
    /\ nKeys' = nKeys + 1
    /\ key' = k
    /\ hi_pc' = "lock"
    /\ UNCHANGED <<tc_prices, tc_symbols, tc_selected_symbol, tc_market_open, tc_cash,
                   tc_portfolio, tc_orders, tc_websocket, tc_running, tc_input_mode,
                   tc_input_buffer, tc_needs_redraw, tc_lock, mm_pc, ui_pc, tc_sent,
                   tcOther>>

\* handle_input: inkey times out with self.running cleared; the loop ends.
InkeyTimeout ==
    /\ hi_pc = "inkey"
    /\ ~tc_running
    /\ hi_pc' = "stopped"
    /\ UNCHANGED <<tc_prices, tc_symbols, tc_selected_symbol, tc_market_open, tc_cash,
                   tc_portfolio, tc_orders, tc_websocket, tc_running, tc_input_mode,
                   tc_input_buffer, tc_needs_redraw, tc_lock, key, mm_pc, ui_pc,
                   tc_sent, nKeys, tcOther>>

\* Enter in buy or sell mode reaches the call of send_order.
CallsSendOrder ==
    /\ tc_input_mode \in {"buy", "sell"}
    /\ key = "KEY_ENTER"
    /\ IsInt(tc_input_buffer)
    /\ ToInt(tc_input_buffer) > 0
    /\ tc_symbols # <<>>

\* handle_input in menu mode: what the key does.
MenuKey ==
    CASE key \in {"k", "j"} ->
            /\ tc_selected_symbol' =
                  IF tc_symbols = <<>> THEN tc_selected_symbol
                  ELSE IF key = "k"
                  THEN (tc_selected_symbol - 1) % Len(tc_symbols)
                  ELSE (tc_selected_symbol + 1) % Len(tc_symbols)
            /\ tc_needs_redraw' = IF tc_symbols = <<>> THEN tc_needs_redraw ELSE TRUE
            /\ UNCHANGED <<tc_input_mode, tc_input_buffer, tc_running, tc_orders>>
      [] key \in {"b", "s"} ->
            /\ IF tc_symbols # <<>> /\ tc_market_open
               THEN /\ tc_input_mode' = IF key = "b" THEN "buy" ELSE "sell"
                    /\ tc_input_buffer' = <<>>
                    /\ tc_needs_redraw' = TRUE
               ELSE UNCHANGED <<tc_input_mode, tc_input_buffer, tc_needs_redraw>>
            /\ UNCHANGED <<tc_selected_symbol, tc_running, tc_orders>>
      [] key = "q" ->
            /\ tc_running' = FALSE
            /\ UNCHANGED <<tc_selected_symbol, tc_needs_redraw, tc_input_mode,
                           tc_input_buffer, tc_orders>>
      [] OTHER ->
            UNCHANGED <<tc_selected_symbol, tc_needs_redraw, tc_input_mode,
                        tc_input_buffer, tc_running, tc_orders>>

\* handle_input in buy or sell mode, for a key that does not reach send_order.
EntryKey ==
    CASE key = "KEY_ESCAPE" ->
            /\ tc_input_mode' = "menu"
            /\ tc_input_buffer' = <<>>
            /\ UNCHANGED <<tc_orders, tc_selected_symbol, tc_needs_redraw, tc_running>>
      [] key = "KEY_ENTER" ->
            /\ tc_orders' = IF IsInt(tc_input_buffer) THEN tc_orders
                            ELSE Append(tc_orders, "Invalid quantity")
            /\ tc_input_mode' = "menu"
            /\ tc_input_buffer' = <<>>
            /\ UNCHANGED <<tc_selected_symbol, tc_needs_redraw, tc_running>>
      [] key = "KEY_BACKSPACE" ->
            /\ tc_input_buffer' = SubSeq(tc_input_buffer, 1, Len(tc_input_buffer) - 1)
            /\ UNCHANGED <<tc_input_mode, tc_orders, tc_selected_symbol,
                           tc_needs_redraw, tc_running>>
      [] key \in Digits ->
            /\ tc_input_buffer' = Append(tc_input_buffer, key)
            /\ UNCHANGED <<tc_input_mode, tc_orders, tc_selected_symbol,
                           tc_needs_redraw, tc_running>>
      [] OTHER ->
            UNCHANGED <<tc_input_mode, tc_input_buffer, tc_orders, tc_selected_symbol,
                        tc_needs_redraw, tc_running>>

\* handle_input: with self.lock, up to the end of the block or to the call of
\* send_order, which is made with the lock held.
HandleKey ==
    /\ hi_pc = "lock"
    /\ tc_lock = "free"
    /\ IF CallsSendOrder
       THEN /\ tc_lock' = "loop"
            /\ hi_pc' = "send_order"
            /\ UNCHANGED <<tc_selected_symbol, tc_needs_redraw, tc_input_mode,
                           tc_input_buffer, tc_running, tc_orders>>
       ELSE /\ UNCHANGED tc_lock
            /\ IF tc_input_mode = "menu" THEN MenuKey ELSE EntryKey
            /\ hi_pc' = LoopTop(tc_running')
    /\ UNCHANGED <<tc_prices, tc_symbols, tc_market_open, tc_cash, tc_portfolio,
                   tc_websocket, key, mm_pc, ui_pc, tc_sent, nKeys, tcOther>>

\* send_order, called from handle_input's locked block, and the rest of that
\* block.  Without an open connection it returns at once.  Otherwise it
\* enters with self.lock: acquire() blocks until the lock is free, and the
\* thread stays in it while the lock is held.
SendOrder ==
    /\ hi_pc = "send_order"
    /\ IF tc_websocket # "open"
       THEN /\ tc_input_mode' = "menu"
            /\ tc_input_buffer' = <<>>
            /\ tc_lock' = "free"
            /\ hi_pc' = LoopTop(tc_running)
            /\ UNCHANGED <<tc_cash, tc_portfolio, tc_orders, tc_sent>>
       ELSE IF tc_lock = "free"
       THEN LET symbol == tc_symbols[tc_selected_symbol + 1]
                quantity == ToInt(tc_input_buffer)
                r == LocalOrder(tc_cash, tc_portfolio, tc_input_mode, symbol,
                                quantity, PriceOf(symbol))
            IN /\ tc_cash' = r.cash
               /\ tc_portfolio' = r.portfolio
               /\ tc_orders' = Append(tc_orders, r.note)
               /\ tc_sent' = IF r.sent
                             THEN Msg("order", "-", tc_input_mode, symbol, quantity,
                                      PriceOf(symbol))
                             ELSE tc_sent
               /\ tc_input_mode' = "menu"
               /\ tc_input_buffer' = <<>>
               /\ tc_lock' = "free"
               /\ hi_pc' = LoopTop(tc_running)
       ELSE UNCHANGED <<tc_cash, tc_portfolio, tc_orders, tc_sent, tc_input_mode,
                        tc_input_buffer, tc_lock, hi_pc>>
    /\ UNCHANGED <<tc_prices, tc_symbols, tc_selected_symbol, tc_market_open,
                   tc_websocket, tc_running, tc_needs_redraw, key, mm_pc, ui_pc, nKeys,
                   tcOther>>

NextTerminal ==
    \/ TC_Connect
    \/ TC_ConnectFail
    \/ TC_Closed
    \/ \E m \in TcMsgs : TC_Market(m)
    \/ UI_Lock
    \/ UI_Draw
    \/ \E k \in Keys : KeyPressed(k)
    \/ InkeyTimeout
    \/ HandleKey
    \/ SendOrder

\* The terminal client.  The threads are scheduled by the operating system
\* and the coroutines by the event loop: a step that stays possible is taken,
\* and a thread that finds the lock free again and again acquires it.
SpecTerminal ==
    /\ Init
    /\ [][NextTerminal]_vars
    /\ WF_vars(UI_Draw)
    /\ SF_vars(HandleKey)
    /\ WF_vars(SendOrder)

\* ============================================================================
\* The market test server of examples/websocket_test_server.py: one
\* market_simulator coroutine per client and the price_generator task, on one
\* event loop.  connected_clients is a set; broadcast_message iterates over
\* it with an await in the loop body.
\* ============================================================================
msOther == <<gwVars, tcVars>>

\* A failure of price_generator leaves asyncio.gather in main, and the server
\* with it.
ServerUp == gen_pc # "failed"

\* next() of the set iterator of broadcast_message's for loop.  It raises
\* RuntimeError when the set's size differs from its size when the iterator
\* was made.  Over an unchanged set it yields the members not yet yielded.
\* Over a set of the same size with other members the order of the hash table
\* decides: any member may come next, or none.
IterNext(it) ==
    IF Cardinality(ms_connected_clients) # Cardinality(it.start)
    THEN {"RuntimeError"}
    ELSE IF ms_connected_clients = it.start
    THEN IF it.start \ it.yielded = {} THEN {"StopIteration"}
         ELSE it.start \ it.yielded
    ELSE ms_connected_clients \cup {"StopIteration"}

\* broadcast_message up to its first await client.send: the set is not empty
\* and the iterator yields client c.
FirstSend(m, c) ==
    [status |-> "sending", msg |-> m, start |-> ms_connected_clients,
     yielded |-> {c}, cur |-> c, disconnected |-> {}]

\* Where the caller of broadcast_message goes when the call returns or raises.
\* price_generator has no handler: the task fails.  market_simulator catches
\* the exception (except Exception) and goes on listening.
Caller(b, outcome) ==
    /\ gen_pc' = IF b # "gen" THEN gen_pc
                 ELSE IF outcome = "failed" THEN "failed" ELSE "sleep"
    /\ ms_pc' = IF b = "gen" THEN ms_pc ELSE [ms_pc EXCEPT ![b] = "listen"]

\* main: the prices are drawn and the price_generator task is created.
MS_Main ==
    /\ gen_pc = "main"
    /\ \E q \in [Symbols -> PriceVals] : ms_prices' = q
    /\ gen_pc' = "sleep"
    /\ UNCHANGED <<ms_connected_clients, ms_transport, ms_pc, ms_iter, nPlaced, msOther>>

\* market_simulator: a client connects; connected_clients.add(websocket) and
\* the await of the market_open send.
MS_Connect(c) ==
    /\ ServerUp
    /\ gen_pc # "main"
    /\ ms_pc[c] = "new"
    /\ ms_connected_clients' = ms_connected_clients \cup {c}
    /\ ms_transport' = [ms_transport EXCEPT ![c] = "open"]
    /\ ms_pc' = [ms_pc EXCEPT ![c] = "hello"]
    /\ UNCHANGED <<ms_prices, gen_pc, ms_iter, nPlaced, msOther>>

\* The client's connection closes.
MS_Drop(c) ==
    /\ ServerUp
    /\ ms_transport[c] = "open"
    /\ ms_transport' = [ms_transport EXCEPT ![c] = "closed"]
    /\ UNCHANGED <<ms_connected_clients, ms_prices, ms_pc, gen_pc, ms_iter, nPlaced,
                   msOther>>

\* market_simulator: the market_open send returns, or raises ConnectionClosed
\* into the handler and finally: connected_clients.discard(websocket).
MS_Hello(c) ==
    /\ ServerUp
    /\ ms_pc[c] = "hello"
    /\ IF ms_transport[c] = "open"
       THEN /\ ms_pc' = [ms_pc EXCEPT ![c] = "listen"]
            /\ UNCHANGED ms_connected_clients
       ELSE /\ ms_pc' = [ms_pc EXCEPT ![c] = "done"]
            /\ ms_connected_clients' = ms_connected_clients \ {c}
    /\ UNCHANGED <<ms_prices, ms_transport, gen_pc, ms_iter, nPlaced, msOther>>

\* market_simulator: async for message in websocket yields an order_placed
\* message: broadcast_message(message, sender=None) up to its first send.
MS_OrderPlaced(c) ==
    /\ ServerUp
    /\ ms_pc[c] = "listen"
    /\ ms_transport[c] = "open"
    /\ nPlaced < MaxPlaced
    /\ nPlaced' = nPlaced + 1
    /\ IF ms_connected_clients = {}
       THEN UNCHANGED <<ms_pc, ms_iter>>
       ELSE \E d \in ms_connected_clients :
               /\ ms_iter' = [ms_iter EXCEPT ![c] = FirstSend("order_placed", d)]
               /\ ms_pc' = [ms_pc EXCEPT ![c] = "bcast"]
    /\ UNCHANGED <<ms_connected_clients, ms_prices, ms_transport, gen_pc, msOther>>

\* market_simulator: the connection is closed; the async for ends or raises
\* ConnectionClosed; finally: connected_clients.discard(websocket).
MS_Finish(c) ==
    /\ ServerUp
    /\ ms_pc[c] = "listen"
    /\ ms_transport[c] = "closed"
    /\ ms_pc' = [ms_pc EXCEPT ![c] = "done"]
    /\ ms_connected_clients' = ms_connected_clients \ {c}
    /\ UNCHANGED <<ms_prices, ms_transport, gen_pc, ms_iter, nPlaced, msOther>>

\* price_generator: the sleep ends; with clients connected a price moves and
\* broadcast_message runs up to its first send.
Gen_Tick ==
    /\ gen_pc = "sleep"
    /\ IF ms_connected_clients = {}
       THEN UNCHANGED <<ms_prices, gen_pc, ms_iter>>
       ELSE /\ \E s \in Symbols, q \in PriceVals : ms_prices' = Put(ms_prices, s, q)
            /\ \E d \in ms_connected_clients :
                  ms_iter' = [ms_iter EXCEPT !["gen"] = FirstSend("price_update", d)]
            /\ gen_pc' = "bcast"
    /\ UNCHANGED <<ms_connected_clients, ms_transport, ms_pc, nPlaced, msOther>>

\* broadcast_message: the suspended send returns or raises (the client goes
\* to disconnected), and the for loop asks its iterator for the next client.
\* A RuntimeError of the iterator is raised outside the try of the loop body
\* and leaves broadcast_message; at the end of the loop the disconnected
\* clients are discarded.
BroadcastResume(b) ==
    /\ ServerUp
    /\ ms_iter[b].status = "sending"
    /\ LET it   == ms_iter[b]
           disc == IF ms_transport[it.cur] = "open" THEN it.disconnected
                   ELSE it.disconnected \cup {it.cur}
       IN \E n \in IterNext(it) :
             CASE n = "RuntimeError" ->
                     /\ ms_iter' = [ms_iter EXCEPT ![b] =
                                       [it EXCEPT !.status = "failed", !.cur = "-",
                                                  !.disconnected = disc]]
                     /\ Caller(b, "failed")
                     /\ UNCHANGED ms_connected_clients
               [] n = "StopIteration" ->
                     /\ ms_iter' = [ms_iter EXCEPT ![b] =
                                       [it EXCEPT !.status = "done", !.cur = "-",
                                                  !.disconnected = disc]]
                     /\ Caller(b, "done")
                     /\ ms_connected_clients' = ms_connected_clients \ disc
               [] OTHER ->
                     /\ ms_iter' = [ms_iter EXCEPT ![b] =
                                       [it EXCEPT !.cur = n,
                                                  !.yielded = @ \cup {n},
                                                  !.disconnected = disc]]
                     /\ UNCHANGED <<ms_connected_clients, ms_pc, gen_pc>>
    /\ UNCHANGED <<ms_prices, ms_transport, nPlaced, msOther>>

NextMarket ==
    \/ MS_Main
    \/ \E c \in MsClients : MS_Connect(c)
    \/ \E c \in MsClients : MS_Drop(c)
    \/ \E c \in MsClients : MS_Hello(c)
    \/ \E c \in MsClients : MS_OrderPlaced(c)
    \/ \E c \in MsClients : MS_Finish(c)
    \/ Gen_Tick
    \/ \E b \in Broadcasters : BroadcastResume(b)

SpecMarket == Init /\ [][NextMarket]_vars

\* ------------------------------------------------------------------ claims
\* A holdings map read with an absent symbol counting as 0.
Held(h, s) == IF s \in DOMAIN h THEN h[s] ELSE 0

IsConfirmation(m) == m.type = "order_confirmation"

IsError(m) == m.type = "error"

\* The session is inside process_order with its result message in send_json.
Answering(c) == pc[c] = "po_send"

\* C1: the validate-then-mutate sequence of an order is atomic.  In every step
\* in which process_order leaves its validation and changes the ledger, the
\* price it read is still the store's price for the symbol, the ledger is
\* still the one the order found, the session holds the lock, and the price
\* of the order_confirmation it goes on to send is the store's price at that
\* moment.
C1_AtomicValidateMutate ==
    [][\A c \in Clients :
          (pc[c] = "po_apply" /\ pc'[c] # "po_apply") =>
             /\ lock = c
             /\ order[c].symbol \in DOMAIN prices
             /\ price[c] = prices[order[c].symbol]
             /\ portfolios[c] = before[c]
             /\ IsConfirmation(result'[c]) =>
                   /\ result'[c].price = prices[order[c].symbol]
                   /\ result'[c].price = prices'[order[c].symbol]]_vars

\* C1's case: a session stands between its read of the price and its write of
\* the ledger while the other session has an order for the same symbol
\* waiting and the feed is connected.
C1_Witness ==
    \E c, d \in Clients :
        /\ c # d
        /\ pc[c] = "po_apply"
        /\ pc[d] = "po_lock"
        /\ order[d].symbol = order[c].symbol
        /\ fpc = "recv"

\* C2: no lost update.  Whenever the lock is free, the price table and every
\* session's ledger equal those of the sequential execution that runs each
\* order and each feed event whole, in the order in which they took the lock.
C2_Serializable ==
    lock = "None" => (prices = shadowPrices /\ portfolios = shadowPortfolios)

\* C2's case: an order of one session has changed its ledger while an order
\* of the other session for the same symbol is submitted and waiting.
C2_Witness ==
    \E c, d \in Clients :
        /\ c # d
        /\ Answering(c)
        /\ IsConfirmation(result[c])
        /\ pc[d] = "po_lock"
        /\ order[d].symbol = result[c].symbol
        /\ order[d].quantity > 0

\* C3: conservation.  Outside the moment between an order's ledger write and
\* its confirmation, a session's cash is the starting cash minus the notional
\* of its confirmed buys plus that of its confirmed sells, and its holdings of
\* each symbol are the confirmed bought minus the confirmed sold quantity.  (A
\* confirmation counts from the moment process_order hands it to send_json.)
C3_Conservation ==
    \A c \in DOMAIN portfolios :
        ~Answering(c) =>
            /\ portfolios[c].cash = StartCash + net[c].cash
            /\ \A s \in Symbols : Held(portfolios[c].holdings, s) = net[c].qty[s]

\* C3's case: a session has had a buy and a sell confirmed at different
\* prices: its holdings are back to none and its cash is above the start.
C3_Witness ==
    \E c \in DOMAIN portfolios :
        /\ pc[c] = "ssu_lock"
        /\ portfolios[c].holdings = NoHoldings
        /\ portfolios[c].cash > StartCash
        /\ net[c].cash = portfolios[c].cash - StartCash

\* C4: an order answered with an error leaves the session's cash and holdings
\* as they were when the order arrived.
C4_RejectionLeavesLedger ==
    \A c \in Clients :
        (Answering(c) /\ IsError(result[c])) => portfolios[c] = before[c]

\* C4's case: an order is being rejected for a session whose ledger is no
\* longer the starting one.
C4_Witness ==
    \E c \in Clients :
        /\ Answering(c)
        /\ IsError(result[c])
        /\ result[c].message = InsufficientFunds
        /\ before[c] # NewPortfolio

\* C5: in every reachable state every session's cash is >= 0 and every
\* quantity in its holdings is >= 0.
C5_NonNegative ==
    \A c \in DOMAIN portfolios :
        /\ portfolios[c].cash >= 0
        /\ \A s \in DOMAIN portfolios[c].holdings : portfolios[c].holdings[s] >= 0

\* C6: an order processed while market_open is false is rejected and leaves
\* the ledger unchanged.
C6_ClosedMarketRejects ==
    \A c \in Clients :
        (Answering(c) /\ ~market_open) =>
            (IsError(result[c]) /\ portfolios[c] = before[c])

\* C7: an order whose quantity is zero or negative is rejected: no
\* order_confirmation is sent for it and the ledger is unchanged.
C7_NonPositiveQuantityRejected ==
    \A c \in Clients :
        (Answering(c) /\ order[c].quantity <= 0) =>
            (IsError(result[c]) /\ portfolios[c] = before[c])

\* C8: with the symbol priced at p in the store, a buy of positive quantity q
\* is confirmed iff the session's cash was >= p*q; with cash = p*q it is
\* confirmed and leaves cash 0.
C8_BuyIffFunds ==
    \A c \in Clients :
        (/\ Answering(c)
         /\ order[c].action = "buy"
         /\ order[c].quantity > 0
         /\ order[c].symbol \in DOMAIN prices) =>
            LET cost == prices[order[c].symbol] * order[c].quantity IN
            /\ IsConfirmation(result[c]) <=> before[c].cash >= cost
            /\ before[c].cash = cost => portfolios[c].cash = 0

\* C8's case: a buy that takes exactly all the cash is being confirmed.
C8_Witness ==
    \E c \in Clients :
        /\ Answering(c)
        /\ order[c].action = "buy"
        /\ order[c].quantity > 0
        /\ order[c].symbol \in DOMAIN prices
        /\ before[c].cash = prices[order[c].symbol] * order[c].quantity
        /\ IsConfirmation(result[c])
        /\ portfolios[c].cash = 0

\* C9: with the symbol priced in the store, a sell of positive quantity q is
\* confirmed iff the session held >= q of the symbol (none counting as 0);
\* with holdings = q it is confirmed and leaves the session holding 0.
C9_SellIffShares ==
    \A c \in Clients :
        (/\ Answering(c)
         /\ order[c].action = "sell"
         /\ order[c].quantity > 0
         /\ order[c].symbol \in DOMAIN prices) =>
            LET s == order[c].symbol
                q == order[c].quantity
            IN /\ IsConfirmation(result[c]) <=> Held(before[c].holdings, s) >= q
               /\ Held(before[c].holdings, s) = q =>
                     Held(portfolios[c].holdings, s) = 0

\* C9's case: a sell of everything the session holds is being confirmed.
C9_Witness ==
    \E c \in Clients :
        /\ Answering(c)
        /\ order[c].action = "sell"
        /\ order[c].quantity > 0
        /\ Held(before[c].holdings, order[c].symbol) = order[c].quantity
        /\ IsConfirmation(result[c])
        /\ Held(portfolios[c].holdings, order[c].symbol) = 0

\* C10: an order for a symbol without a price in the store is answered with
\* the unknown-symbol error and leaves the ledger unchanged; it never reaches
\* the execution or the upstream relay, and every order_placed message sent
\* upstream is for a priced symbol.
C10_UnknownSymbolRejected ==
    /\ \A c \in Clients :
          /\ (Answering(c) /\ order[c].symbol \notin DOMAIN prices) =>
                (result[c] = ErrorMsg(UnknownSymbol) /\ portfolios[c] = before[c])
          /\ pc[c] \in {"po_apply", "po_relay", "po_relay_wait"} =>
                order[c].symbol \in DOMAIN prices
    /\ upstream # NoMsg => upstream.symbol \in DOMAIN prices

\* C10's case: an order for an unpriced symbol is being rejected while the
\* upstream connection is open.
C10_Witness ==
    \E c \in Clients :
        /\ Answering(c)
        /\ order[c].symbol \notin DOMAIN prices
        /\ result[c] = ErrorMsg(UnknownSymbol)
        /\ market_ws = "open"

\* C11: no send is issued while state.lock is held: no session is inside a
\* send_json or the upstream send while it holds the lock, and the feed
\* handler does not hold the lock while broadcast_to_clients sends.
C11_NoSendUnderLock ==
    /\ \A c \in Clients :
          pc[c] \in {"ssu_send", "po_send", "po_relay_wait"} => lock # c
    /\ fpc = "bcast" => lock # "feed"

\* C13: an order_confirmation is in send_json only once the ledger holds the
\* order's effect: the confirmation repeats the order's action, symbol and
\* quantity, and the session's cash and holdings differ from those the order
\* found by exactly the confirmed quantity at the confirmed price.
C13_ConfirmAfterMutation ==
    \A c \in Clients :
        (Answering(c) /\ IsConfirmation(result[c])) =>
            LET m == result[c] IN
            /\ m.action = order[c].action
            /\ m.symbol = order[c].symbol
            /\ m.quantity = order[c].quantity
            /\ portfolios[c].cash =
                  before[c].cash - Signed(m) * m.price * m.quantity
            /\ \A s \in Symbols :
                  Held(portfolios[c].holdings, s) =
                     Held(before[c].holdings, s)
                        + (IF s = m.symbol THEN Signed(m) * m.quantity ELSE 0)

\* C13's case: the confirmation of a sell of a positive quantity is being
\* sent, and the ledger is no longer the one the order found.
C13_Witness ==
    \E c \in Clients :
        /\ Answering(c)
        /\ IsConfirmation(result[c])
        /\ result[c].action = "sell"
        /\ result[c].quantity > 0
        /\ portfolios[c] # before[c]

\* C14: broadcast_to_clients starts with every registered session to be sent
\* to; each of its steps sends to the next one and moves on whether or not
\* the send failed; it ends back in the feed handler (no raise) with exactly
\* the sessions whose send failed removed from connected_clients; and nobody
\* else changes the registry while it runs.
C14_BroadcastIsolatesFailures ==
    [][/\ (fpc = "recv" /\ fpc' = "bcast") =>
             (pending' = connected_clients /\ disconnected' = <<>>)
       /\ (fpc = "bcast" /\ pending' # pending) =>
             LET c == Head(pending)
                 gone == Range(disconnected)
                            \cup (IF transport'[c] = "closed" THEN {c} ELSE {})
             IN /\ pending' = Tail(pending)
                /\ IF Tail(pending) = <<>>
                   THEN /\ fpc' = "recv"
                        /\ lock' = "None"
                        /\ connected_clients' = Without(connected_clients, gone)
                   ELSE /\ fpc' = "bcast"
                        /\ Range(disconnected') = gone
                        /\ connected_clients' = connected_clients
       /\ (fpc = "bcast" /\ pending' = pending) =>
             (fpc' = "bcast" /\ connected_clients' = connected_clients)]_vars

\* C14's case: the send to the first session has failed and the second
\* session is still to be sent to.
C14_Witness ==
    /\ fpc = "bcast"
    /\ disconnected # <<>>
    /\ pending # <<>>
    /\ Len(connected_clients) = 2

\* C15: once a session's handler has ended, neither its transport entry in
\* connected_clients nor its ledger in portfolios remains.
C15_ClosedSessionGone ==
    \A c \in Clients :
        pc[c] \in {"done", "crashed"} =>
            (c \notin Range(connected_clients) /\ c \notin DOMAIN portfolios)

\* C12: a send to one session that never completes does not keep the others
\* out: every other session that asks for the lock, for a snapshot or for an
\* order, eventually holds it.
C12_OthersGetLock ==
    \A d \in Clients \ {Stalled} :
        (pc[d] \in {"ssu_lock", "po_lock"}) ~> (lock = d)

\* C16: a feed payload that cannot be used is dropped: after it the upstream
\* connection is still open and the gateway is still receiving.
C16_MalformedDropped ==
    fault \in {"not_json", "payload_error"} => (market_ws = "open" /\ fpc = "recv")

\* C17: no busy loop: every connection attempt after the first begins when
\* the delay has elapsed.
C17_DelayBeforeAttempt ==
    [][(fpc # "connect" /\ fpc' = "connect") => fpc = "sleep"]_vars

\* C18: the reconnect loop never stops: market_ws refers to an open
\* connection only while the gateway is inside that connection, a gateway in
\* its delay comes to the next connection attempt, and an attempt ends
\* connected or in the delay.
C18_ReconnectForever ==
    /\ [](market_ws = "open" => fpc \in {"recv", "bcast"})
    /\ (fpc = "sleep") ~> (fpc = "connect")
    /\ (fpc = "connect") ~> (fpc \in {"recv", "sleep"})

\* C18's case: the upstream connection has closed and the gateway is about
\* to connect again.
C18_Witness ==
    /\ fault = "closed"
    /\ fpc = "connect"
    /\ market_ws = "closed"

\* C19: a price_update is written to the price table in the step that takes
\* it, whatever the table held, and with sessions registered that step
\* starts its broadcast to all of them; as long as the broadcast runs the
\* table holds the price the message carries.
C19_WriteThenBroadcast ==
    /\ []((fpc = "bcast" /\ fmsg.type = "price_update") =>
            /\ lock = "feed"
            /\ fmsg.symbol \in DOMAIN prices
            /\ prices[fmsg.symbol] = fmsg.price)
    /\ [][\A m \in FeedMsgs :
             (m.type = "price_update" /\ HM_Apply(m)) =>
                /\ m.symbol \in DOMAIN prices'
                /\ prices'[m.symbol] = m.price
                /\ connected_clients # <<>> =>
                      /\ fpc' = "bcast"
                      /\ fmsg' = m
                      /\ pending' = connected_clients]_vars

\* C19's case: a price_update carrying the price the table already held has
\* been sent to the first of two sessions and is about to go to the second.
C19_Witness ==
    /\ fpc = "bcast"
    /\ fmsg.type = "price_update"
    /\ stored = fmsg.price
    /\ Len(connected_clients) = 2
    /\ Len(pending) = 1

\* C20: the upstream relay never fails or undoes its order: while
\* send_order_to_market runs, the confirmation has been sent and the ledger
\* holds the order's effect, and whatever the upstream connection does the
\* session goes on from it to the end of process_order, not to an exception
\* handler, with its ledger as it was.
C20_RelayFailureHarmless ==
    /\ [](\A c \in Clients :
            pc[c] \in {"po_relay", "po_relay_wait"} =>
               LET m == result[c] IN
               /\ IsConfirmation(m)
               /\ portfolios[c].cash =
                     before[c].cash - Signed(m) * m.price * m.quantity
               /\ Held(portfolios[c].holdings, m.symbol) =
                     Held(before[c].holdings, m.symbol) + Signed(m) * m.quantity)
    /\ [][\A c \in Clients :
             pc[c] \in {"po_relay", "po_relay_wait"} =>
                /\ pc'[c] \in {"po_relay", "po_relay_wait", "ssu_lock"}
                /\ portfolios'[c] = portfolios[c]]_vars

\* C20's case: the order_placed message is in the upstream send and the
\* upstream connection has closed.
C20_Witness ==
    \E c \in Clients :
        /\ pc[c] = "po_relay_wait"
        /\ market_ws = "closed"

\* C21: every order that changes the ledger while the upstream connection is
\* open goes on to exactly one order_placed relay, which carries the action,
\* symbol, quantity and price of the confirmation; nothing is relayed for a
\* rejected order.
C21_MutationRelayedOnce ==
    /\ [](upstream # NoMsg =>
            \E c \in Clients :
                /\ pc[c] = "po_relay_wait"
                /\ IsConfirmation(result[c])
                /\ upstream = OrderPlaced(result[c]))
    /\ [][\A c \in Clients :
             (/\ Answering(c)
              /\ IsConfirmation(result[c])
              /\ market_ws = "open"
              /\ pc'[c] # "po_send") => pc'[c] = "po_relay"]_vars

\* C22: the step that registers a session finds its identifier in neither
\* connected_clients nor portfolios, puts it into both with cash 10000 and no
\* holdings, and leaves every existing ledger as it was; a session past its
\* registration always has a ledger.
C22_RegisterCreatesLedger ==
    /\ [](\A c \in Clients : pc[c] # "init" => c \in DOMAIN portfolios)
    /\ [][\A c \in Clients :
             (pc[c] = "init" /\ pc'[c] # "init") =>
                /\ c \notin DOMAIN portfolios
                /\ c \notin Range(connected_clients)
                /\ c \in Range(connected_clients')
                /\ c \in DOMAIN portfolios'
                /\ portfolios'[c].cash = StartCash
                /\ portfolios'[c].holdings = NoHoldings
                /\ pc'[c] = "ssu_lock"
                /\ \A d \in DOMAIN portfolios :
                      d \in DOMAIN portfolios' /\ portfolios'[d] = portfolios[d]]_vars

\* C22's case: the second session has registered after the first session
\* had traded.
C22_Witness ==
    /\ pc["c2"] = "ssu_lock"
    /\ "c2" \in DOMAIN portfolios
    /\ portfolios["c2"] = NewPortfolio
    /\ portfolios["c1"] # NewPortfolio
    /\ connected_clients = <<"c1", "c2">>

\* C24: the price table changes only in a step that handles a price_update
\* and never loses a symbol; market_open changes only in a step that handles
\* a market_open or market_close event.
C24_StoreWrittenByFeedOnly ==
    [][/\ prices' # prices =>
             /\ DOMAIN prices \subseteq DOMAIN prices'
             /\ \E m \in FeedMsgs : m.type = "price_update" /\ HM_Apply(m)
       /\ market_open' # market_open =>
             \E m \in FeedMsgs :
                 m.type \in {"market_open", "market_close"} /\ HM_Apply(m)]_vars

\* C24's case: a session has a confirmed position, so orders, registrations
\* and broadcasts have run beside the store, and a session has left.
C24_Witness ==
    /\ "AAPL" \in DOMAIN prices
    /\ market_open
    /\ \E c \in Clients : net[c].qty["AAPL"] > 0
    /\ \E c \in Clients : pc[c] = "done"

\* C25: a session's ledger changes only in the step of its own process_order
\* that executes the order, under the lock, and that step changes no other
\* session's ledger; no ledger disappears.
C25_LedgerOwnedByOrders ==
    [][\A c \in DOMAIN portfolios :
          /\ c \in DOMAIN portfolios'
          /\ portfolios'[c] # portfolios[c] =>
                /\ pc[c] = "po_apply"
                /\ lock = c
                /\ \A d \in DOMAIN portfolios \ {c} :
                      d \in DOMAIN portfolios' /\ portfolios'[d] = portfolios[d]]_vars

\* C25's case: one session holds a position while a feed event is being
\* broadcast and the other session has disconnected.
C25_Witness ==
    \E c, d \in Clients :
        /\ c # d
        /\ c \in DOMAIN portfolios
        /\ portfolios[c] # NewPortfolio
        /\ pc[d] \in {"done", "crashed"}
        /\ fpc = "bcast"

\* C27: a session's own disconnect handling never raises, also when a
\* broadcast has already removed the session.
C27_RemovalNeverRaises ==
    \A c \in Clients : pc[c] # "crashed"

\* C29: a coroutine holds the lock exactly while it is inside one of its
\* locked blocks: never while it asks for the lock, and not after a send has
\* raised out of the block.
C29_LockHeldInsideBlocksOnly ==
    /\ \A c \in Clients :
          lock = c <=>
             pc[c] \in {"ssu_send", "po_apply", "po_send", "po_relay", "po_relay_wait"}
    /\ lock = "feed" <=> fpc = "bcast"

\* C29's case: a send to one session has raised and the other session holds
\* the lock for its order.
C29_Witness ==
    \E c, d \in Clients :
        /\ pc[c] \in Raised
        /\ pc[d] = "po_apply"
        /\ lock = d

\* C30: the broadcast runs only with the lock held by the feed handler, and
\* connected_clients changes only in a register or unregister step taken
\* with the lock free and no broadcast running, or in the step that ends the
\* broadcast.
C30_RegistryStableInBroadcast ==
    /\ [](fpc = "bcast" => lock = "feed")
    /\ [][connected_clients' # connected_clients =>
             \/ lock = "None" /\ lock' = "None" /\ fpc # "bcast"
             \/ lock = "feed" /\ fpc = "bcast" /\ fpc' = "recv"]_vars

\* C30's case: while the broadcast is iterating, one session waits to
\* unregister and the other waits to register.
C30_Witness ==
    /\ fpc = "bcast"
    /\ pending # <<>>
    /\ \E c \in Clients : pc[c] \in Raised /\ c \in Range(connected_clients)
    /\ \E d \in Clients : pc[d] = "init"

\* C23: no broadcast is delivered to a session between its registration and
\* its initial snapshot: a broadcast send to a session that has not been
\* through its first send_state_update does not go through.
C23_SnapshotFirst ==
    [][(/\ fpc = "bcast"
        /\ pending # <<>>
        /\ pending' = Tail(pending)
        /\ Head(pending) \in fresh)
       => transport'[Head(pending)] = "closed"]_vars

\* C26: a send of an order result or of a snapshot for session c acts on c's
\* transport alone (it goes through only on c's open transport, it raises
\* only by finding c's transport closed, and every other session's transport
\* is left as it was), and a message that is broadcast to every session
\* carries no cash and no portfolio.
C26_ResultsPrivate ==
    /\ [][\A c \in Clients :
            (pc[c] \in {"ssu_send", "po_send"} /\ pc'[c] # pc[c]) =>
               /\ \A d \in Clients \ {c} : transport'[d] = transport[d]
               /\ IF pc'[c] \in Raised
                  THEN transport'[c] = "closed"
                  ELSE transport[c] = "open" /\ transport'[c] = "open"]_vars
    /\ [](fpc = "bcast" =>
            DOMAIN BroadcastMsg(fmsg) \cap {"portfolio", "cash"} = {})
    /\ [](\A c \in Clients : pc[c] = "ssu_send" =>
            /\ SnapshotMsg(c).cash = portfolios[c].cash
            /\ SnapshotMsg(c).portfolio = portfolios[c].holdings)

\* C26's case: session c's order confirmation has been delivered while
\* another session is connected on an open transport and c's ledger differs
\* from the other session's.
C26_Witness ==
    \E c, d \in Clients :
        /\ c # d
        /\ pc[c] = "po_relay"
        /\ IsConfirmation(result[c])
        /\ d \in Range(connected_clients)
        /\ transport[d] = "open"
        /\ pc[d] \in {"ssu_send", "recv"}
        /\ portfolios[c] # portfolios[d]

\* C28: every state_update being sent, the snapshot of send_state_update or
\* the broadcast of a market open/close event, carries the four fields
\* portfolio, cash, prices and market_open.
C28_StateUpdateComplete ==
    /\ \A c \in Clients :
          pc[c] = "ssu_send" => StateUpdateFields \subseteq DOMAIN SnapshotMsg(c)
    /\ (fpc = "bcast" /\ pending # <<>> /\ BroadcastMsg(fmsg).type = "state_update")
          => StateUpdateFields \subseteq DOMAIN BroadcastMsg(fmsg)

\* C31: in the terminal client, an Enter that confirms a positive quantity in
\* buy or sell mode with the connection open is followed by handle_input
\* back at its loop with the input mode "menu": the key handler terminates
\* and does not wait forever on self.lock.
C31_EnterTerminates ==
    (hi_pc = "lock" /\ CallsSendOrder /\ tc_websocket = "open")
       ~> (hi_pc \in {"inkey", "stopped"} /\ tc_input_mode = "menu")

\* C32: in the market test server no call of broadcast_message fails, the
\* price generator task does not fail, and a broadcast that has returned has
\* attempted a send to every client that was connected when it started.
C32_BroadcastSurvivesChurn ==
    /\ gen_pc # "failed"
    /\ \A b \in Broadcasters :
          /\ ms_iter[b].status # "failed"
          /\ ms_iter[b].status = "done" => ms_iter[b].start \subseteq ms_iter[b].yielded

====
